---- MODULE Spec2Model ----
(***************************************************************************)
(* A model of quotes_scraper.py: the QuotesScraper class (scrape,         *)
(* save_page, parse_quotes_page, parse_quote_div, quit) and the __main__  *)
(* script that drives it.  The browser and the site it shows are the      *)
(* environment: a site is a set of pages, each with a URL, a sequence of  *)
(* quote containers and at most one "Next" link.  A string the code takes *)
(* apart or builds (a URL, a file name) is the sequence of its pieces:    *)
(* each "/" and "_" is a piece, and so is each run of other characters.   *)
(***************************************************************************)
EXTENDS Integers, Sequences, FiniteSets, TLC

VARIABLES
    numPages,     \* site: number of pages reachable from the start URL
    nextLink,     \* site: page -> page its "Next" link loads, 0 when it has none
    pageDivs,     \* site: page -> its div.quote containers in document order
    pageUrl,      \* site: page -> URL the browser reports for it
    is_dump,      \* self.is_dump
    pc,           \* position of the script
    cur,          \* page the driver shows (0: none yet)
    result,       \* self.result
    contents,     \* parse_quotes_page: contents
    curr_url,     \* parse_quotes_page: curr_url
    fname,        \* save_page: name of the file inside data_dumps
    quote_divs,   \* parse_quotes_page: quote_divs
    idx,          \* parse_quotes_page: position of the for loop in quote_divs
    dump_dir,     \* file system: data_dumps exists
    dump_files,   \* file system: files of data_dumps, name -> contents
    res_file,     \* file system: quotes.json
    quits,        \* history: calls of driver.quit()
    calls,        \* history: calls of scrape()
    visited,      \* history: pages parsed by the current scrape() call, in order
    clicks,       \* history: next_element.click() calls of the current scrape()
    trace,        \* history: steps taken for the page being processed
    fault,        \* history: what raised, "none" while nothing has
    res_before,   \* history: quotes.json as it was when scrape() was called
    dir_before    \* history: whether data_dumps existed when scrape() was called

vars == << numPages, nextLink, pageDivs, pageUrl, is_dump, pc, cur, result,
           contents, curr_url, fname, quote_divs, idx, dump_dir, dump_files,
           res_file, quits, calls, visited, clicks, trace, fault, res_before,
           dir_before >>

site == << numPages, nextLink, pageDivs, pageUrl, is_dump >>
locals == << contents, curr_url, fname, quote_divs, idx >>
dumps == << dump_dir, dump_files >>

(***************************************************************************)
(* Bounds                                                                  *)
(***************************************************************************)
MaxPages == 3

\* scrape() calls a client makes on one instance (the script makes one)
MaxCalls == 2

\* pages one scrape() may parse before the model stops following a cycle
MaxVisits == MaxPages + 2

(***************************************************************************)
(* Strings                                                                 *)
(***************************************************************************)
\* http://quotes.toscrape.com/js/
StartUrl ==
    << "http:", "/", "/", "quotes.toscrape.com", "/", "js", "/" >>

\* http://quotes.toscrape.com/js/page/2/
Page2Url ==
    << "http:", "/", "/", "quotes.toscrape.com", "/", "js", "/", "page",
        "/", "2", "/" >>

\* http://example.com/js/page/3/
ExampleUrl ==
    << "http:", "/", "/", "example.com", "/", "js", "/", "page", "/", "3",
        "/" >>

\* http://example.com/x/page/3/
OtherUrl ==
    << "http:", "/", "/", "example.com", "/", "x", "/", "page", "/", "3",
        "/" >>

\* http://quotes.toscrape.com/js/page/3
Page3Url ==
    << "http:", "/", "/", "quotes.toscrape.com", "/", "js", "/", "page",
        "/", "3" >>

HtmlSuffix == << ".html" >>

\* page_3.html
Page3Html == << "page", "_", "3", ".html" >>

\* URLs the pages after the first may have; a site uses some of them, in
\* this order
LaterUrls == << Page2Url, ExampleUrl, OtherUrl, Page3Url >>

(***************************************************************************)
(* The site's markup                                                       *)
(***************************************************************************)
\* A div.quote container: the texts of its span elements, of its small
\* elements and of its a.tag elements, each in document order.
QA == [spans |-> <<"A">>, smalls |-> <<"Author1">>, tags |-> <<"x">>]
QB == [spans |-> <<"B">>, smalls |-> <<"Author2">>, tags |-> <<"y", "z">>]
QC == [spans |-> <<"C">>, smalls |-> <<"Author3">>, tags |-> <<>>]
NoSmall == [spans |-> <<"D">>, smalls |-> <<>>, tags |-> <<"x">>]
NoSpan == [spans |-> <<>>, smalls |-> <<"Author2">>, tags |-> <<>>]

PageBodies ==
    { <<QA, QB>>, <<QC>>, <<>>, <<QA, NoSmall, QB>>, <<NoSpan, QC>> }

\* driver.page_source of page p
Markup(p) == [divs |-> pageDivs[p], next |-> nextLink[p]]

NoMarkup == [divs |-> <<>>, next |-> 0]

Pages == 1..numPages

(***************************************************************************)
(* save_page: the file name                                                *)
(***************************************************************************)
RECURSIVE SplitFrom(_, _, _)
SplitFrom(s, sep, part) ==
    IF s = <<>> THEN <<part>>
    ELSE IF Head(s) = sep THEN <<part>> \o SplitFrom(Tail(s), sep, <<>>)
    ELSE SplitFrom(Tail(s), sep, Append(part, Head(s)))

\* str.split(sep) for a one-character sep
Split(s, sep) == SplitFrom(s, sep, <<>>)

\* list[-2:]
LastTwo(l) == IF Len(l) <= 2 THEN l ELSE SubSeq(l, Len(l) - 1, Len(l))

RECURSIVE Join(_, _)
\* sep.join(l)
Join(sep, l) ==
    IF l = <<>> THEN <<>>
    ELSE IF Len(l) = 1 THEN l[1]
    ELSE l[1] \o sep \o Join(sep, Tail(l))

PageName(url) == Join(<<"_">>, LastTwo(Split(url, "/")))

DumpFileName(url) == PageName(url) \o HtmlSuffix

\* the directory emptied by every write
WriteFileAlone(files, name, text) == [n \in {name} |-> text]

\* open(fname, "w") and f.write(contents) on the files of a directory
WriteFile(files, name, text) ==
    [n \in (DOMAIN files) \cup {name} |-> IF n = name THEN text ELSE files[n]]

DumpEnabled == is_dump

(***************************************************************************)
(* parse_quotes_page: the order of its steps                               *)
(***************************************************************************)
\* the page dumped after its records are appended
FlowDumpLast(at) ==
    CASE at = "current_url" -> "soup"
      [] at = "save_page" -> "find_element"
      [] at = "soup" -> "for"
      [] at = "for" -> IF DumpEnabled THEN "save_page" ELSE "find_element"

\* the position that follows position at
Flow(at) ==
    CASE at = "current_url" -> IF DumpEnabled THEN "save_page" ELSE "soup"
      [] at = "save_page" -> "soup"
      [] at = "soup" -> "for"
      [] at = "for" -> "find_element"

(***************************************************************************)
(* parse_quote_div                                                         *)
(***************************************************************************)
\* quote_div.span.text or quote_div.small.text raises AttributeError when
\* the container has no such element (the attribute is None)
Raises(quote_div) == quote_div.spans = <<>> \/ quote_div.smalls = <<>>

ParseQuoteDiv(quote_div) ==
    [quote  |-> quote_div.spans[1],
     author |-> quote_div.smalls[1],
     tags   |-> quote_div.tags]

\* a record already collected is not collected again
AppendResultOnce(res, quote_details) ==
    IF \E i \in 1..Len(res) : res[i] = quote_details
    THEN res
    ELSE Append(res, quote_details)

AppendResult(res, quote_details) == Append(res, quote_details)

\* the results saved when something raises
OnRaiseFlush == "flush"

\* the exception swallowed, scrape() returning at once
OnRaiseReturn == "returned"

\* where an exception raised inside scrape() takes the script
OnRaise == "aborted"

(***************************************************************************)
(* json.dump(self.result, f, indent=4, ensure_ascii=False)                 *)
(***************************************************************************)
JsonObject(d) ==
    << <<"quote", d.quote>>, <<"author", d.author>>, <<"tags", d.tags>> >>

JsonDump(res) == [i \in 1..Len(res) |-> JsonObject(res[i])]

Absent == [state |-> "absent", data |-> <<>>]
Stale == [state |-> "written", data |-> << JsonObject(ParseQuoteDiv(QC)) >>]
Truncated == [state |-> "truncated", data |-> <<>>]
Written(res) == [state |-> "written", data |-> JsonDump(res)]

(***************************************************************************)
(* find_element(By.LINK_TEXT, "Next ->")                                   *)
(***************************************************************************)
\* the link text never matching
FindElementNever(p) == 0

\* a link to a page already parsed taken for no link
FindElementUnvisited(p) ==
    IF \E i \in 1..Len(visited) : visited[i] = nextLink[p]
    THEN 0
    ELSE nextLink[p]

\* the page the link found on page p loads, 0 for NoSuchElementException
FindElement(p) == nextLink[p]

(***************************************************************************)
(* Initial states: the instance is constructed, scrape() not yet called    *)
(***************************************************************************)
\* the ways to give pages 2..n URLs of LaterUrls, keeping their order
UrlChoices(n) ==
    {k \in [2..n -> 1..Len(LaterUrls)] :
        \A a, b \in 2..n : a < b => k[a] < k[b]}

Init ==
    /\ \E n \in 1..MaxPages, back \in 0..MaxPages :
          /\ back <= n
          /\ numPages = n
          /\ nextLink = [p \in 1..n |-> IF p < n THEN p + 1 ELSE back]
          /\ pageDivs \in [1..n -> PageBodies]
          /\ \E k \in UrlChoices(n) :
                pageUrl = [p \in 1..n |->
                              IF p = 1 THEN StartUrl ELSE LaterUrls[k[p]]]
    /\ is_dump \in BOOLEAN
    /\ \E fresh \in BOOLEAN :
          /\ dump_dir = ~fresh
          /\ res_file = IF fresh THEN Absent ELSE Stale
    /\ dump_files = << >>
    /\ pc = "scrape"
    /\ cur = 0
    /\ result = << >>
    /\ contents = NoMarkup
    /\ curr_url = << >>
    /\ fname = << >>
    /\ quote_divs = << >>
    /\ idx = 0
    /\ quits = 0
    /\ calls = 0
    /\ visited = << >>
    /\ clicks = 0
    /\ trace = << >>
    /\ fault = "none"
    /\ res_before = res_file
    /\ dir_before = dump_dir

(***************************************************************************)
(* scrape()                                                                *)
(***************************************************************************)
\* lines 90-94: set_window_size, driver.get(start URL)
Get ==
    /\ pc = "scrape"
    /\ calls = 0
    /\ pc' = "page_source"
    /\ cur' = 1
    /\ calls' = calls + 1
    /\ visited' = << >>
    /\ clicks' = 0
    /\ trace' = << >>
    /\ res_before' = res_file
    /\ dir_before' = dump_dir
    /\ UNCHANGED << site, result, locals, dumps, res_file, quits, fault >>

\* driver.get raises (the page cannot be loaded)
GetFails ==
    /\ pc = "scrape"
    /\ calls = 0
    /\ pc' = OnRaise
    /\ fault' = "get"
    /\ calls' = calls + 1
    /\ visited' = << >>
    /\ clicks' = 0
    /\ trace' = << >>
    /\ res_before' = res_file
    /\ dir_before' = dump_dir
    /\ UNCHANGED << site, cur, result, locals, dumps, res_file, quits >>

\* line 97: the argument self.driver.page_source is read
PageSource ==
    /\ pc = "page_source"
    /\ contents' = Markup(cur)
    /\ visited' = Append(visited, cur)
    /\ trace' = << "page_source" >>
    /\ pc' = "current_url"
    /\ UNCHANGED << site, cur, result, curr_url, fname, quote_divs, idx, dumps,
                    res_file, quits, calls, clicks, fault, res_before,
                    dir_before >>

\* lines 136-141: curr_url = self.driver.current_url; if self.is_dump
CurrentUrl ==
    /\ pc = "current_url"
    /\ curr_url' = pageUrl[cur]
    /\ trace' = Append(trace, "current_url")
    /\ pc' = Flow("current_url")
    /\ UNCHANGED << site, cur, result, contents, fname, quote_divs, idx, dumps,
                    res_file, quits, calls, visited, clicks, fault, res_before,
                    dir_before >>

\* lines 118-130: save_page(contents, curr_url)
SavePage ==
    /\ pc = "save_page"
    /\ fname' = DumpFileName(curr_url)
    /\ dump_dir' = TRUE
    /\ dump_files' = WriteFile(dump_files, fname', contents)
    /\ trace' = Append(trace, "save_page")
    /\ pc' = Flow("save_page")
    /\ UNCHANGED << site, cur, result, contents, curr_url, quote_divs, idx,
                    res_file, quits, calls, visited, clicks, fault, res_before,
                    dir_before >>

\* line 123: os.mkdir raises
MkdirFails ==
    /\ pc = "save_page"
    /\ ~dump_dir
    /\ pc' = OnRaise
    /\ fault' = "mkdir"
    /\ UNCHANGED << site, cur, result, locals, dumps, res_file, quits, calls,
                    visited, clicks, trace, res_before, dir_before >>

\* line 129: open(fname, "w") raises, after the directory was made
DumpWriteFails ==
    /\ pc = "save_page"
    /\ fname' = DumpFileName(curr_url)
    /\ dump_dir' = TRUE
    /\ pc' = OnRaise
    /\ fault' = "dump"
    /\ UNCHANGED << site, cur, result, contents, curr_url, quote_divs, idx,
                    dump_files, res_file, quits, calls, visited, clicks, trace,
                    res_before, dir_before >>

\* lines 143-145: BeautifulSoup(contents), soup.find_all("div", class quote)
Soup ==
    /\ pc = "soup"
    /\ quote_divs' = contents.divs
    /\ idx' = 1
    /\ trace' = Append(trace, "find_all")
    /\ pc' = Flow("soup")
    /\ UNCHANGED << site, cur, result, contents, curr_url, fname, dumps,
                    res_file, quits, calls, visited, clicks, fault, res_before,
                    dir_before >>

\* lines 147-149: one iteration of the loop over quote_divs
ForQuoteDiv ==
    /\ pc = "for"
    /\ idx <= Len(quote_divs)
    /\ ~Raises(quote_divs[idx])
    /\ result' = AppendResult(result, ParseQuoteDiv(quote_divs[idx]))
    /\ idx' = idx + 1
    /\ trace' = Append(trace, "append")
    /\ UNCHANGED << site, pc, cur, contents, curr_url, fname, quote_divs, dumps,
                    res_file, quits, calls, visited, clicks, fault, res_before,
                    dir_before >>

\* lines 157-158: parse_quote_div raises AttributeError
ForQuoteDivRaises ==
    /\ pc = "for"
    /\ idx <= Len(quote_divs)
    /\ Raises(quote_divs[idx])
    /\ pc' = OnRaise
    /\ fault' = "parse"
    /\ UNCHANGED << site, cur, result, locals, dumps, res_file, quits, calls,
                    visited, clicks, trace, res_before, dir_before >>

\* line 147: the loop over quote_divs is exhausted, parse_quotes_page returns
ForEnd ==
    /\ pc = "for"
    /\ idx > Len(quote_divs)
    /\ pc' = Flow("for")
    /\ UNCHANGED << site, cur, result, locals, dumps, res_file, quits, calls,
                    visited, clicks, trace, fault, res_before, dir_before >>

\* lines 99-103: find_element; NoSuchElementException breaks the loop
FindNext ==
    /\ pc = "find_element"
    /\ trace' = Append(trace, "find_element")
    /\ pc' = IF FindElement(cur) = 0 THEN "flush" ELSE "click"
    /\ UNCHANGED << site, cur, result, locals, dumps, res_file, quits, calls,
                    visited, clicks, fault, res_before, dir_before >>

\* line 105: next_element.click() loads the next page
Click ==
    /\ pc = "click"
    /\ Len(visited) < MaxVisits
    /\ cur' = FindElement(cur)
    /\ clicks' = clicks + 1
    /\ pc' = "page_source"
    /\ UNCHANGED << site, result, locals, dumps, res_file, quits, calls,
                    visited, trace, fault, res_before, dir_before >>

\* line 105: click raises (the page cannot be loaded)
ClickFails ==
    /\ pc = "click"
    /\ pc' = OnRaise
    /\ fault' = "click"
    /\ UNCHANGED << site, cur, result, locals, dumps, res_file, quits, calls,
                    visited, clicks, trace, res_before, dir_before >>

\* lines 107-109: open(res_file, "w"), json.dump
Flush ==
    /\ pc = "flush"
    /\ res_file' = Written(result)
    /\ pc' = "returned"
    /\ UNCHANGED << site, cur, result, locals, dumps, quits, calls, visited,
                    clicks, trace, fault, res_before, dir_before >>

\* line 108 or 109 raises: open() before it truncates the file, or the write
FlushFails ==
    /\ pc = "flush"
    /\ res_file' \in {res_file, Truncated}
    /\ pc' = "aborted"
    /\ fault' = "flush"
    /\ UNCHANGED << site, cur, result, locals, dumps, quits, calls, visited,
                    clicks, trace, res_before, dir_before >>

(***************************************************************************)
(* __main__ after scrape() returned; quit()                                *)
(***************************************************************************)
Quit ==
    /\ pc = "returned"
    /\ quits' = quits + 1
    /\ pc' = "exit"
    /\ UNCHANGED << site, cur, result, locals, dumps, res_file, calls, visited,
                    clicks, trace, fault, res_before, dir_before >>

\* a client other than __main__ calls scrape() again on the same instance
ScrapeAgain ==
    /\ pc = "returned"
    /\ calls < MaxCalls
    /\ pc' = "page_source"
    /\ cur' = 1
    /\ calls' = calls + 1
    /\ visited' = << >>
    /\ clicks' = 0
    /\ trace' = << >>
    /\ res_before' = res_file
    /\ dir_before' = dump_dir
    /\ UNCHANGED << site, result, locals, dumps, res_file, quits, fault >>

\* the steps in which nothing raises
Step ==
    \/ Get
    \/ PageSource
    \/ CurrentUrl
    \/ SavePage
    \/ Soup
    \/ ForQuoteDiv
    \/ ForEnd
    \/ FindNext
    \/ Click
    \/ Flush
    \/ Quit

Raise ==
    \/ GetFails
    \/ MkdirFails
    \/ DumpWriteFails
    \/ ForQuoteDivRaises
    \/ ClickFails
    \/ FlushFails

Next == Step \/ Raise

\* the script __main__
Spec == Init /\ [][Next]_vars

\* the script on a site that is a finite chain of pages, with nothing but
\* parse_quote_div raising, its steps taken as long as one can be
InitChain == Init /\ nextLink[numPages] = 0

LiveNext == Step \/ ForQuoteDivRaises

LiveSpec == InitChain /\ [][LiveNext]_vars /\ WF_vars(LiveNext)

\* a client that calls scrape() more than once on one instance
NextReuse == Next \/ ScrapeAgain

SpecReuse == Init /\ [][NextReuse]_vars

(***************************************************************************)
(* Properties                                                              *)
(***************************************************************************)
IsPrefix(a, b) == Len(a) <= Len(b) /\ SubSeq(b, 1, Len(a)) = a

Last(l) == l[Len(l)]

\* the site is a finite chain: its last page has no Next link
IsChain == nextLink[numPages] = 0

\* a container that lacks its span or its small element
Malformed(d) == d.spans = <<>> \/ d.smalls = <<>>

WellFormedSite ==
    \A p \in Pages : \A i \in 1..Len(pageDivs[p]) : ~Malformed(pageDivs[p][i])

\* the record of a well-formed container
RecordOf(d) == [quote |-> d.spans[1], author |-> d.smalls[1], tags |-> d.tags]

RECURSIVE PageRecords(_)
\* the records of the pages ps, page by page, each in document order
PageRecords(ps) ==
    IF ps = <<>> THEN <<>>
    ELSE [i \in 1..Len(pageDivs[Head(ps)]) |-> RecordOf(pageDivs[Head(ps)][i])]
         \o PageRecords(Tail(ps))

\* what quotes.json holds when it lists the records recs
FileOf(recs) ==
    [state |-> "written",
     data |-> [i \in 1..Len(recs) |->
                 << <<"quote", recs[i].quote>>, <<"author", recs[i].author>>,
                    <<"tags", recs[i].tags>> >>]]

\* the loop of scrape() has ended: the page parsed last has no Next link
\* and the lookup of the link was the last step
LoopDone ==
    /\ visited # <<>>
    /\ nextLink[Last(visited)] = 0
    /\ trace # <<>>
    /\ Last(trace) = "find_element"

\* C1: on a chain of numPages pages, scrape() returns only after parsing
\* pages 1..numPages once each, in order, with numPages - 1 clicks and the
\* output file written; and on a chain of well-formed pages it does return.
TerminatesOnChain ==
    /\ [](pc = "returned" =>
            /\ IsChain
            /\ visited = [i \in 1..numPages |-> i]
            /\ clicks = numPages - 1
            /\ res_file = FileOf(result))
    /\ (IsChain /\ WellFormedSite => <>(pc = "returned"))

TerminatesOnChainWitness ==
    /\ pc = "returned"
    /\ numPages = MaxPages
    /\ clicks = numPages - 1
    /\ res_file # res_before

\* C2: result only ever grows at its end, and when scrape() returns, it and
\* the output file hold the records of the pages visited, in visit order,
\* each page's in document order, repeated quotes once per occurrence.
OrderPreserved ==
    [][ /\ IsPrefix(result, result')
        /\ (pc' = "returned" =>
              /\ result' = PageRecords(visited')
              /\ res_file' = FileOf(PageRecords(visited'))) ]_vars

OrderPreservedWitness ==
    /\ pc = "returned"
    /\ Len(visited) >= 2
    /\ \E i, j \in 1..Len(result) : i < j /\ result[i] = result[j]
    /\ \E i, j \in 1..Len(result) : i < j /\ result[i] # result[j]
    /\ res_file = FileOf(result)

\* C3: quotes.json changes only once the loop has ended without anything
\* raising before the flush; a run that aborted earlier leaves it as it was.
NoPartialOutput ==
    /\ res_file # res_before => LoopDone /\ fault \in {"none", "flush"}
    /\ (pc = "aborted" /\ fault # "flush") => res_file = res_before

NoPartialOutputWitness ==
    /\ pc = "aborted"
    /\ fault \in {"parse", "click", "dump"}
    /\ result # <<>>
    /\ Len(visited) >= 2
    /\ res_file = res_before
    /\ res_before = Stale

\* C4: when the run has ended, normally or by an error, driver.quit() has
\* been called exactly once.
SessionReleasedOnce == pc \in {"exit", "aborted"} => quits = 1

\* the path segments of a URL: what lies between its slashes after the host
PathSegments(url) ==
    SelectSeq(SubSeq(Split(url, "/"), 4, Len(Split(url, "/"))),
              LAMBDA seg : seg # <<>>)

\* C5: the dump file is named after the last two path segments of the URL,
\* joined by an underscore, with .html; page_3.html for
\* http://example.com/js/page/3/.
DumpNameLastTwoSegments ==
    (pc = "soup" /\ is_dump /\ Len(PathSegments(curr_url)) >= 2) =>
        /\ fname = Join(<<"_">>, LastTwo(PathSegments(curr_url))) \o HtmlSuffix
        /\ curr_url = ExampleUrl => fname = Page3Html

\* scrape() is at a container that is malformed
AtMalformed ==
    /\ pc = "for"
    /\ idx <= Len(quote_divs)
    /\ Malformed(quote_divs[idx])

\* C6: at a malformed container the run aborts: the container yields no
\* record, nothing further is parsed, clicked or written, and an aborted run
\* takes no further step.
MalformedAborts ==
    [][ /\ AtMalformed =>
              /\ pc' = "aborted"
              /\ fault' = "parse"
              /\ UNCHANGED << result, idx, cur, visited, clicks, res_file,
                              dump_files, quits >>
        /\ pc = "aborted" => UNCHANGED vars ]_vars

MalformedAbortsWitness ==
    /\ pc = "aborted"
    /\ fault = "parse"
    /\ idx < Len(quote_divs)
    /\ nextLink[cur] # 0
    /\ result # <<>>
    /\ res_file = res_before

\* C7: result is empty when a crawl starts, and the file a crawl writes
\* holds the records of the pages of that crawl only.
CollectionPerCrawl ==
    /\ (pc = "page_source" /\ visited = <<>>) => result = <<>>
    /\ pc = "returned" => res_file = FileOf(PageRecords(visited))

\* the dump file names of the site's pages differ pairwise
DistinctDumpNames ==
    \A p, q \in Pages :
        p # q => DumpFileName(pageUrl[p]) # DumpFileName(pageUrl[q])

DistinctUrls == \A p, q \in Pages : p # q => pageUrl[p] # pageUrl[q]

\* every page has its dump, and there are no other dumps
OneDumpPerPage ==
    /\ Cardinality(DOMAIN dump_files) = numPages
    /\ \A p \in Pages :
         \E n \in DOMAIN dump_files : dump_files[n] = Markup(p)

\* C8 as stated: after a crawl of a chain of pages with distinct URLs, dump
\* mode on, data_dumps holds one dump per page; dump mode off, none is made.
DumpPerDistinctUrl ==
    /\ (pc = "returned" /\ is_dump /\ DistinctUrls) => OneDumpPerPage
    /\ ~is_dump => dump_files = <<>> /\ dump_dir = dir_before

\* C8 amended: the same for pages whose dump file names are distinct.
DumpPerDistinctName ==
    /\ (pc = "returned" /\ is_dump /\ DistinctDumpNames) =>
          /\ OneDumpPerPage
          /\ \A p \in Pages :
               /\ DumpFileName(pageUrl[p]) \in DOMAIN dump_files
               /\ dump_files[DumpFileName(pageUrl[p])] = Markup(p)
    /\ ~is_dump => dump_files = <<>> /\ dump_dir = dir_before

DumpPerDistinctNameWitness ==
    /\ pc = "returned"
    /\ is_dump
    /\ numPages = MaxPages
    /\ DistinctDumpNames
    /\ Cardinality(DOMAIN dump_files) = numPages
    /\ \E p, q \in Pages : Markup(p) # Markup(q)

Appends(p) == [i \in 1..Len(pageDivs[p]) |-> "append"]

DumpStep == IF is_dump THEN << "save_page" >> ELSE << >>

\* C9 as stated: snapshot, extraction, appends, dump, link lookup.
StepOrderDumpAfterAppend ==
    trace # <<>> =>
        IsPrefix(trace, << "page_source", "current_url", "find_all" >>
                        \o Appends(Last(visited)) \o DumpStep
                        \o << "find_element" >>)

\* C9 amended: snapshot, dump, extraction, appends, link lookup.
StepOrderDumpFirst ==
    trace # <<>> =>
        IsPrefix(trace, << "page_source", "current_url" >> \o DumpStep
                        \o << "find_all" >> \o Appends(Last(visited))
                        \o << "find_element" >>)

StepOrderDumpFirstWitness ==
    /\ is_dump
    /\ Len(visited) >= 2
    /\ pageDivs[Last(visited)] # <<>>
    /\ trace = << "page_source", "current_url", "save_page", "find_all" >>
               \o Appends(Last(visited)) \o << "find_element" >>

\* the model has stopped following the cycle
AtCap == pc = "click" /\ Len(visited) = MaxVisits

\* C10: on a site whose Next links form a cycle, as long as nothing raises,
\* scrape() stays in its loop: it never flushes or returns, the output file
\* stays as it was, the session is not released, and result holds the records of every visit, revisits included.
CycleNeverDone ==
    (~IsChain /\ fault = "none") =>
        /\ pc \in {"scrape", "page_source", "current_url", "save_page", "soup",
                   "for", "find_element", "click"}
        /\ res_file = res_before
        /\ quits = 0
        /\ pc = "click" => result = PageRecords(visited)

CycleNeverDoneWitness ==
    /\ ~IsChain
    /\ fault = "none"
    /\ AtCap
    /\ \E i, j \in 1..Len(visited) : i < j /\ visited[i] = visited[j]
    /\ Len(result) > Len(PageRecords([p \in 1..numPages |-> p]))

====
